---- MODULE Spec2Model ----
(***************************************************************************)
(* A model of pyosu's request pipeline (src/pyosu/http.py): the Route      *)
(* (URL assembly and parameter bookkeeping) and the Request (validation,   *)
(* HTTP GET, status translation, JSON extraction).                         *)
(*                                                                         *)
(* Python values are tagged records; a dict is a sequence of <<key,value>> *)
(* pairs with distinct keys, in insertion order, as CPython keeps it.      *)
(***************************************************************************)
EXTENDS Integers, Sequences, FiniteSets, TLC

VARIABLES
    api_key,        \* Route.api_key
    parameters,     \* Route.parameters
    json_response,  \* Request.json_response
    retry_count,    \* Request.retry_count
    _data,          \* Request._data
    pc,             \* where the fetch coroutine stands
    session,        \* the session fetch uses, and the state of both sessions
    response,       \* the response of the GET in flight
    sent,           \* the GETs issued by the current call of fetch
    log,            \* the steps taken by the current call of fetch, in order
    result          \* the last call made on the Route or the Request, and its outcome

vars == <<api_key, parameters, json_response, retry_count, _data,
          pc, session, response, sent, log, result>>

(***************************************************************************)
(* Bounds of the model.                                                    *)
(***************************************************************************)
MaxParams == 2      \* the most parameters a Route holds at once
MaxKwargs == 1      \* the most keyword arguments given to Route(...)
MaxPath   == 2      \* the most path arguments given to get_json

(***************************************************************************)
(* Python values.                                                          *)
(***************************************************************************)
None       == [t |-> "None"]
PyBool(b)  == [t |-> "bool", b |-> b]
PyInt(n)   == [t |-> "int", n |-> n]
PyStr(s)   == [t |-> "str", s |-> s]
PyList(xs) == [t |-> "list", items |-> xs]
PyDict(kv) == [t |-> "dict", items |-> kv]

Return(v)      == [kind |-> "return", value |-> v]
Raise(e, args) == [kind |-> "raise", exc |-> e, args |-> args]

\* key in d
Has(kv, key) == \E i \in 1..Len(kv) : kv[i][1] = key

\* the position of key in d
IndexOf(kv, key) == CHOOSE i \in 1..Len(kv) : kv[i][1] = key

\* d[key], for a key of d
Get(kv, key) == kv[IndexOf(kv, key)][2]

\* d[key] = value: an existing key keeps its position, a new key goes last
SetItem(kv, key, value) ==
    IF Has(kv, key)
    THEN [kv EXCEPT ![IndexOf(kv, key)] = <<key, value>>]
    ELSE Append(kv, <<key, value>>)

\* d after del d[key]
DelItem(kv, key) ==
    LET i == IndexOf(kv, key)
    IN  SubSeq(kv, 1, i - 1) \o SubSeq(kv, i + 1, Len(kv))

Digit(d) ==
    CASE d = 0 -> "0" [] d = 1 -> "1" [] d = 2 -> "2" [] d = 3 -> "3" [] d = 4 -> "4"
      [] d = 5 -> "5" [] d = 6 -> "6" [] d = 7 -> "7" [] d = 8 -> "8" [] d = 9 -> "9"

RECURSIVE IntStr(_)
IntStr(n) ==
    IF n < 0 THEN "-" \o IntStr(0 - n)
    ELSE IF n < 10 THEN Digit(n)
    ELSE IntStr(n \div 10) \o Digit(n % 10)

\* str(value), for the values a parameter takes
str(v) ==
    CASE v.t = "str"  -> v.s
      [] v.t = "int"  -> IntStr(v.n)
      [] v.t = "bool" -> IF v.b THEN "True" ELSE "False"
      [] v.t = "None" -> "None"

RECURSIVE join(_, _)
join(sep, xs) ==
    IF Len(xs) = 0 THEN ""
    ELSE IF Len(xs) = 1 THEN xs[1]
    ELSE xs[1] \o sep \o join(sep, Tail(xs))

(***************************************************************************)
(* Route                                                                   *)
(***************************************************************************)
base == "https://osu.ppy.sh/api/"
path == "get_user"

\* Route.__init__: the keyword arguments whose value is not None, in order
RECURSIVE RouteInit(_)
RouteInit(kwargs) ==
    IF Len(kwargs) = 0 THEN <<>>
    ELSE LET rest == RouteInit(SubSeq(kwargs, 1, Len(kwargs) - 1))
             last == kwargs[Len(kwargs)]
         IN  IF last[2] # None THEN SetItem(rest, last[1], last[2]) ELSE rest

\* routeOf with the api key appended after the parameters
routeOf_key_last(key, params) ==
    LET tail  == IF key # "" THEN <<"k=" \o key>> ELSE <<>>
        items == [i \in 1..Len(params) |->
                    params[i][1] \o "=" \o str(params[i][2])] \o tail
    IN  IF Len(items) > 0
        THEN base \o path \o "?" \o join("&", items)
        ELSE base \o path

\* the query items of Route.route, each <<name, text>>: the api key first
\* when there is one, then the parameters in insertion order
query(key, params) ==
    LET head == IF key # "" THEN << <<"k", key>> >> ELSE <<>>
    IN  head \o [i \in 1..Len(params) |-> <<params[i][1], str(params[i][2])>>]

\* the URL assembled from an api key and a parameter mapping
routeOf(key, params) ==
    LET q     == query(key, params)
        items == [i \in 1..Len(q) |-> q[i][1] \o "=" \o q[i][2]]
    IN  IF Len(items) > 0
        THEN base \o path \o "?" \o join("&", items)
        ELSE base \o path

\* Route.route
route == routeOf(api_key, parameters)

\* add_paramOf where a None value deletes the key
add_paramOf_none_deletes(params, key, value) ==
    IF value = None
    THEN IF Has(params, key) THEN DelItem(params, key) ELSE params
    ELSE SetItem(params, key, value)

\* the mapping after add_param(key, value)
add_paramOf(params, key, value) ==
    IF value = None THEN params ELSE SetItem(params, key, value)

\* dict.pop(key, None): <<the value popped, the mapping left>>
pop(params, key) ==
    IF Has(params, key)
    THEN <<Get(params, key), DelItem(params, key)>>
    ELSE <<None, params>>

\* accepted_params with its last name left out
accepted_params_short ==
    <<"a", "h", "k", "m", "b", "u", "s", "mp",
      "limit", "type", "mods", "event_days">>

accepted_params ==
    <<"a", "h", "k", "m", "b", "u", "s", "mp",
      "limit", "type", "mods", "event_days", "since">>

Accepted(key) == \E i \in 1..Len(accepted_params) : accepted_params[i] = key

\* Route.check_params, from the i-th key on
RECURSIVE check_paramsFrom(_, _)
check_paramsFrom(params, i) ==
    IF i > Len(params) THEN Return(None)
    ELSE IF ~Accepted(params[i][1])
         THEN Raise("InvalidArgument", <<PyStr(params[i][1])>>)
         ELSE check_paramsFrom(params, i + 1)

\* check_params that goes through the whole mapping and reports the
\* last key it rejected
RECURSIVE check_params_last_from(_, _)
check_params_last_from(params, i) ==
    IF i < 1 THEN Return(None)
    ELSE IF ~Accepted(params[i][1])
         THEN Raise("InvalidArgument", <<PyStr(params[i][1])>>)
         ELSE check_params_last_from(params, i - 1)

check_paramsOf_last(params) == check_params_last_from(params, Len(params))

\* the outcome of Route.check_params on a mapping
check_paramsOf(params) == check_paramsFrom(params, 1)

(***************************************************************************)
(* Request                                                                 *)
(***************************************************************************)

\* json.loads on the response bodies of the model
loads(text) ==
    CASE text = "{\"error\": \"bad key\"}"
            -> Return(PyDict(<< <<"error", PyStr("bad key")>> >>))
      [] text = "{\"error\": \"Replay not available.\"}"
            -> Return(PyDict(<< <<"error", PyStr("Replay not available.")>> >>))
      [] text = "{\"error\": null}"
            -> Return(PyDict(<< <<"error", None>> >>))
      [] text = "{\"id\": 1}"
            -> Return(PyDict(<< <<"id", PyInt(1)>> >>))
      [] text = "[{\"id\": 1}]"
            -> Return(PyList(<< PyDict(<< <<"id", PyInt(1)>> >>) >>))
      [] text = "{\"a\": {\"b\": 5}}"
            -> Return(PyDict(<< <<"a", PyDict(<< <<"b", PyInt(5)>> >>)>> >>))
      [] text = "{\"a\": {}}"
            -> Return(PyDict(<< <<"a", PyDict(<<>>)>> >>))
      [] text = "{\"a\": 5}"
            -> Return(PyDict(<< <<"a", PyInt(5)>> >>))
      [] text = "5"
            -> Return(PyInt(5))
      [] text = "\"error\""
            -> Return(PyStr("error"))
      [] text = "null"
            -> Return(None)
      [] OTHER
            -> Raise("JSONDecodeError", <<>>)

\* data[key] for a string key: the value, KeyError on a dict without the key,
\* TypeError on anything that is no dict
getitem(data, key) ==
    IF data.t = "dict"
    THEN IF Has(data.items, key)
         THEN Return(Get(data.items, key))
         ELSE Raise("KeyError", <<PyStr(key)>>)
    ELSE Raise("TypeError", <<>>)

\* the loop of get_json over its path arguments
RECURSIVE descend(_, _)
descend(data, args) ==
    IF Len(args) = 0 THEN Return(data)
    ELSE LET got == getitem(data, Head(args))
         IN  IF got.kind = "return" THEN descend(got.value, Tail(args))
             ELSE IF got.exc = "KeyError" THEN Return(PyStr(""))
             ELSE got

\* get_jsonOf that looks for an empty body before it looks at json_response
get_jsonOf_empty_first(as_json, text, args) ==
    IF text = "" THEN Return(PyDict(<<>>))
    ELSE IF as_json = FALSE THEN Return(PyStr(text))
    ELSE LET data == loads(text)
         IN  IF data.kind = "raise" THEN data
             ELSE IF Len(args) = 0 THEN data
             ELSE descend(data.value, args)

\* Request.get_json on a response whose body is text
get_jsonOf(as_json, text, args) ==
    IF as_json = FALSE THEN Return(PyStr(text))
    ELSE IF text = "" THEN Return(PyDict(<<>>))
    ELSE LET data == loads(text)
         IN  IF data.kind = "raise" THEN data
             ELSE IF Len(args) = 0 THEN data
             ELSE descend(data.value, args)

get_json(text, args) == get_jsonOf(json_response, text, args)

\* Request.get_json(response, *args), called on a response whose body is text
call_get_json(text, args) ==
    /\ pc = "idle"
    /\ result' = [op |-> "get_json", args |-> <<PyStr(text), args>>,
                  out |-> get_json(text, args)]
    /\ UNCHANGED <<api_key, parameters, json_response, retry_count, _data,
                   pc, session, response, sent, log>>

\* NotFoundStatus without the redirection
NotFoundStatus_404_only(status) == status = 404

\* the statuses fetch_with_session answers without reading the body
NotFoundStatus(status) == status \in {302, 404}

\* the path arguments fetch_with_session gives get_json
json_args(status) == IF status = 200 THEN <<>> ELSE <<"error">>

\* on_ok that reads data.get('error') of every mapping, without asking
\* whether the key is there
on_ok_every_dict(data) ==
    IF data.t = "dict"
    THEN LET error == IF Has(data.items, "error") THEN Get(data.items, "error") ELSE None
         IN  IF error = PyStr("Replay not available.")
             THEN Raise("ReplayUnavailable", <<error>>)
             ELSE Raise("HTTPError", <<PyInt(400), error>>)
    ELSE Return(data)

\* on_ok that compares the error with the message less its full stop
on_ok_other_message(data) ==
    IF data.t = "dict" /\ Has(data.items, "error")
    THEN IF Get(data.items, "error") = PyStr("Replay not available")
         THEN Raise("ReplayUnavailable", <<Get(data.items, "error")>>)
         ELSE Raise("HTTPError", <<PyInt(400), Get(data.items, "error")>>)
    ELSE Return(data)

\* the 200 branch of fetch_with_session, on the value get_json returned
on_ok(data) ==
    IF data.t = "dict" /\ Has(data.items, "error")
    THEN IF Get(data.items, "error") = PyStr("Replay not available.")
         THEN Raise("ReplayUnavailable", <<Get(data.items, "error")>>)
         ELSE Raise("HTTPError", <<PyInt(400), Get(data.items, "error")>>)
    ELSE Return(data)

\* fetch_with_session once the body is read: got is what get_json did
translate(status, got) ==
    IF got.kind = "raise" THEN got
    ELSE IF status = 401 THEN Raise("WrongApiKey", <<got.value>>)
    ELSE IF status # 200 THEN Raise("HTTPError", <<PyInt(status), got.value>>)
    ELSE on_ok(got.value)

not_found(url, status) ==
    Raise("RouteNotFound", <<PyStr(url \o " was not found."), PyInt(status)>>)

NoResponse == [status |-> 0, text |-> ""]
Pending    == [kind |-> "pending"]

(***************************************************************************)
(* The calls a caller makes on the Route.  Each records itself in result.  *)
(***************************************************************************)
Call(op, args, out) == [op |-> op, args |-> args, out |-> out]

fetch_vars == <<json_response, retry_count, _data, pc, session, response, sent, log>>

\* add_param that checks the key against accepted_params as it stores it
add_param_eager(key, value) ==
    /\ parameters' = IF Accepted(key) THEN add_paramOf(parameters, key, value)
                     ELSE parameters
    /\ result' = Call("add_param", <<PyStr(key), value>>,
                      IF Accepted(key) THEN Return(None)
                      ELSE Raise("InvalidArgument", <<PyStr(key)>>))
    /\ UNCHANGED <<api_key, fetch_vars>>

\* Route.add_param(key, value)
add_param(key, value) ==
    /\ parameters' = add_paramOf(parameters, key, value)
    /\ result' = Call("add_param", <<PyStr(key), value>>, Return(None))
    /\ UNCHANGED <<api_key, fetch_vars>>

\* remove_param that answers with the truth of the value it popped
remove_param_truthy(key) ==
    LET popped == pop(parameters, key)
        truthy == popped[1] \notin {None, PyInt(0), PyStr("")}
    IN  /\ parameters' = popped[2]
        /\ result' = Call("remove_param", <<PyStr(key)>>, Return(PyBool(truthy)))
        /\ UNCHANGED <<api_key, fetch_vars>>

\* Route.remove_param(key)
remove_param(key) ==
    LET popped == pop(parameters, key)
    IN  /\ parameters' = popped[2]
        /\ result' = Call("remove_param", <<PyStr(key)>>, Return(PyBool(popped[1] # None)))
        /\ UNCHANGED <<api_key, fetch_vars>>

\* Route.check_params(), called by the caller
check_params ==
    /\ result' = Call("check_params", <<>>, check_paramsOf(parameters))
    /\ UNCHANGED <<api_key, parameters, fetch_vars>>

\* a read of Route.route
read_route ==
    /\ result' = Call("route", <<>>, Return(PyStr(route)))
    /\ UNCHANGED <<api_key, parameters, fetch_vars>>

(***************************************************************************)
(* Request.fetch, one action from each point of the coroutine to the next. *)
(* The coroutine is suspended, and so lets other code run, only while it   *)
(* awaits the response (session.get) and the body (response.text).         *)
(***************************************************************************)
\* Suspended, were there an await between check_params and session.get
Suspended_before_get == pc \in {"idle", "get", "awaiting_response", "awaiting_text"}

Suspended == pc \in {"idle", "awaiting_response", "awaiting_text"}

\* leave that closes the session fetch made only after a value was returned
leave_open_on_error(out, steps) ==
    /\ result' = Call("fetch", <<>>, out)
    /\ session' = IF session.use = "own" /\ out.kind = "return"
                  THEN [session EXCEPT !.own = "closed"]
                  ELSE session
    /\ log' = IF session.use = "own" /\ out.kind = "return"
              THEN Append(steps, "close") ELSE steps
    /\ pc' = "idle"

\* leave that, after an error, issues the GET again while retry_count allows
leave_retry(out, steps) ==
    IF out.kind = "raise" /\ Len(sent) <= retry_count
    THEN /\ pc' = "get"
         /\ log' = steps
         /\ UNCHANGED <<session, result>>
    ELSE /\ result' = Call("fetch", <<>>, out)
         /\ session' = IF session.use = "own" THEN [session EXCEPT !.own = "closed"]
                       ELSE session
         /\ log' = IF session.use = "own" THEN Append(steps, "close") ELSE steps
         /\ pc' = "idle"

\* what every way out of fetch does: the context managers release the
\* response and, when fetch made the session, close it; the caller then
\* holds the value returned or the exception raised
leave(out, steps) ==
    /\ result' = Call("fetch", <<>>, out)
    /\ session' = IF session.use = "own" THEN [session EXCEPT !.own = "closed"]
                  ELSE session
    /\ log' = IF session.use = "own" THEN Append(steps, "close") ELSE steps
    /\ pc' = "idle"

\* Request.fetch(session): with no session given, make one for this call
fetch(given) ==
    /\ pc = "idle"
    /\ session' = IF given = "none"
                  THEN [session EXCEPT !.use = "own", !.own = "open"]
                  ELSE [session EXCEPT !.use = "caller", !.own = "none"]
    /\ log' = IF given = "none" THEN <<"ClientSession">> ELSE <<>>
    /\ sent' = <<>>
    /\ response' = NoResponse
    /\ result' = Call("fetch", <<>>, Pending)
    /\ pc' = "check_params"
    /\ UNCHANGED <<api_key, parameters, json_response, retry_count, _data>>

\* validate that calls check_params and goes on whatever it did
validate_unchecked ==
    /\ pc = "check_params"
    /\ pc' = "get"
    /\ log' = Append(log, "check_params")
    /\ UNCHANGED <<api_key, parameters, json_response, retry_count, _data,
                   session, sent, response, result>>

\* fetch_with_session: self.route.check_params()
validate ==
    /\ pc = "check_params"
    /\ LET out == check_paramsOf(parameters)
       IN  IF out.kind = "raise"
           THEN /\ leave(out, log)
                /\ UNCHANGED <<sent, response>>
           ELSE /\ pc' = "get"
                /\ log' = Append(log, "check_params")
                /\ UNCHANGED <<session, sent, response, result>>
    /\ UNCHANGED <<api_key, parameters, json_response, retry_count, _data>>

\* fetch_with_session: session.get(self.route.route)
dispatch ==
    /\ pc = "get"
    /\ sent' = Append(sent, [url |-> route, on |-> session.use])
    /\ log' = Append(log, "get")
    /\ pc' = "awaiting_response"
    /\ UNCHANGED <<api_key, parameters, json_response, retry_count, _data,
                   session, response, result>>

\* the response arrives: 302 and 404 raise at once, every other status
\* goes on to read the body
respond(status, text) ==
    /\ pc = "awaiting_response"
    /\ response' = [status |-> status, text |-> text]
    /\ IF NotFoundStatus(status)
       THEN leave(not_found(route, status), log)
       ELSE /\ pc' = "awaiting_text"
            /\ UNCHANGED <<session, log, result>>
    /\ UNCHANGED <<api_key, parameters, json_response, retry_count, _data, sent>>

\* read_text that stores the body before it looks for an `error` key
read_text_store_first ==
    /\ pc = "awaiting_text"
    /\ LET got == get_json(response.text, json_args(response.status))
           out == translate(response.status, got)
       IN  /\ leave(out, Append(log, "text"))
           /\ _data' = IF got.kind = "return" /\ response.status = 200
                       THEN got.value ELSE _data
    /\ UNCHANGED <<api_key, parameters, json_response, retry_count, sent, response>>

\* the body arrives: get_json and the rest of fetch_with_session
read_text ==
    /\ pc = "awaiting_text"
    /\ LET got == get_json(response.text, json_args(response.status))
           out == translate(response.status, got)
       IN  /\ leave(out, Append(log, "text"))
           /\ _data' = IF out.kind = "return" THEN out.value ELSE _data
    /\ UNCHANGED <<api_key, parameters, json_response, retry_count, sent, response>>

(***************************************************************************)
(* The inputs of the model.                                                *)
(***************************************************************************)
ApiKeys == {"", "abc"}

\* parameter names: four of the accepted ones and two that are not
Keys   == {"a", "h", "k", "since", "zz", "q"}
Values == {None, PyInt(0), PyInt(1), PyInt(2), PyStr("")}

\* the names and values used around a fetch
FetchKeys   == {"a", "zz"}
FetchValues == {None, PyInt(1)}

Statuses == {200, 302, 401, 404, 500}
Bodies   == {"", "oops", "5", "[{\"id\": 1}]", "{\"id\": 1}",
             "{\"error\": \"bad key\"}", "{\"error\": null}",
             "{\"error\": \"Replay not available.\"}"}
Retries  == {0, 5}

\* the keyword arguments Route(...) can be given: at most n, of distinct names
KwargsOf(K, V, n) ==
    UNION { { kw \in [1..m -> K \X V] :
                \A i, j \in 1..m : kw[i][1] = kw[j][1] => i = j } : m \in 0..n }

InitWith(K, V, flags, retries) ==
    /\ api_key \in ApiKeys
    /\ \E kwargs \in KwargsOf(K, V, MaxKwargs) :
          /\ parameters = RouteInit(kwargs)
          /\ result = Call("Route", <<kwargs>>, Return(None))
    /\ json_response \in flags
    /\ retry_count \in retries
    /\ _data = PyList(<<>>)
    /\ pc = "idle"
    /\ session = [use |-> "none", own |-> "none", caller |-> "open"]
    /\ response = NoResponse
    /\ sent = <<>>
    /\ log = <<>>

\* a step of the caller on the Route, with names from K and values from V
RouteStep(K, V) ==
    \/ \E key \in K, value \in V :
          /\ Len(add_paramOf(parameters, key, value)) <= MaxParams
          /\ add_param(key, value)
    \/ \E key \in K : remove_param(key)

(***************************************************************************)
(* Spec: one caller, which builds a Route, fetches, and between fetches    *)
(* changes the Route.                                                      *)
(***************************************************************************)
Init == InitWith(FetchKeys, FetchValues, BOOLEAN, Retries)

Next ==
    \/ pc = "idle" /\ RouteStep(FetchKeys, FetchValues)
    \/ \E given \in {"none", "caller"} : fetch(given)
    \/ validate
    \/ dispatch
    \/ \E status \in Statuses, text \in Bodies : respond(status, text)
    \/ read_text

Spec == Init /\ [][Next]_vars

(***************************************************************************)
(* SpecRoute: the Route alone, under every call a caller can make on it.   *)
(***************************************************************************)
InitRoute == InitWith(Keys, Values, {TRUE}, {5})

NextRoute ==
    \/ RouteStep(Keys, Values)
    \/ check_params
    \/ read_route

SpecRoute == InitRoute /\ [][NextRoute]_vars

(***************************************************************************)
(* SpecJson: get_json called on a response with any body and any path, and *)
(* fetch on a Route left as it was built.                                  *)
(***************************************************************************)
JsonBodies  == Bodies \cup {"null", "\"error\"", "{\"a\": 5}",
                            "{\"a\": {}}", "{\"a\": {\"b\": 5}}"}
PathKeys    == {"a", "b"}
Paths       == UNION { [1..n -> PathKeys] : n \in 0..MaxPath }
FetchBodies == {"", "oops", "{\"error\": \"bad key\"}"}

InitJson == InitWith({}, {}, BOOLEAN, {5})

NextJson ==
    \/ \E text \in JsonBodies, args \in Paths : call_get_json(text, args)
    \/ fetch("caller")
    \/ validate
    \/ dispatch
    \/ \E status \in Statuses, text \in FetchBodies : respond(status, text)
    \/ read_text

SpecJson == InitJson /\ [][NextJson]_vars

(***************************************************************************)
(* SpecConc: as Spec, with a second coroutine that shares the Route and    *)
(* changes it whenever the fetch coroutine is suspended.                   *)
(***************************************************************************)
InitConc == InitWith(FetchKeys, FetchValues, BOOLEAN, {5})

NextConc ==
    \/ Suspended /\ RouteStep(FetchKeys, FetchValues)
    \/ \E given \in {"none", "caller"} : fetch(given)
    \/ validate
    \/ dispatch
    \/ \E status \in Statuses, text \in FetchBodies : respond(status, text)
    \/ read_text

SpecConc == InitConc /\ [][NextConc]_vars

(***************************************************************************)
(* The claims.  What follows states the specification's sentences; it      *)
(* models no code.                                                         *)
(***************************************************************************)

\* the allow-list, as the specification gives it
AllowList == {"a", "h", "k", "m", "b", "u", "s", "mp",
              "limit", "type", "mods", "event_days", "since"}

\* a call of fetch has completed and the caller holds its outcome
Fetched == pc = "idle" /\ result.op = "fetch"

Raised(exc) == result.out.kind = "raise" /\ result.out.exc = exc

IdList == PyList(<< PyDict(<< <<"id", PyInt(1)>> >>) >>)

\* the body as fetch hands it on: the text itself when json_response is
\* false, the empty mapping for an empty text, the parsed JSON otherwise;
\* defined only for a text that parses
BodyParses(text) == ~json_response \/ text = "" \/ loads(text).kind = "return"
ParsedBody(text) ==
    IF ~json_response THEN PyStr(text)
    ELSE IF text = "" THEN PyDict(<<>>)
    ELSE loads(text).value

ReportsError(body) == body.t = "dict" /\ \E i \in 1..Len(body.items) : body.items[i][1] = "error"

----
\* C1: a fetch whose route passes validation and whose response is a 200
\* with a parsed body that is no mapping with an `error` key returns that
\* body and stores it as `data`; `data` then changes only when a fetch
\* succeeds, and then to the value that fetch returned.
C1_Returned ==
    (Fetched /\ response.status = 200 /\ BodyParses(response.text)
             /\ ~ReportsError(ParsedBody(response.text)))
    => /\ result.out = Return(ParsedBody(response.text))
       /\ _data = ParsedBody(response.text)
       /\ (json_response /\ response.text = "[{\"id\": 1}]" => _data = IdList)

C1_DataKept ==
    _data' # _data
    => /\ pc = "awaiting_text" /\ pc' = "idle"
       /\ result'.op = "fetch" /\ result'.out = Return(_data')

C1_FetchReturnsAndStores == []C1_Returned /\ [][C1_DataKept]_vars

\* C1 witness: the specification's example, with a session made by fetch
C1_Witness ==
    /\ Fetched /\ session.use = "own" /\ json_response
    /\ response = [status |-> 200, text |-> "[{\"id\": 1}]"]
    /\ result.out = Return(IdList) /\ _data = IdList

----
\* C2: whenever the response status is 401, fetch fails with WrongApiKey,
\* whatever the body and whatever json_response.
C2_AlwaysWrongApiKey ==
    (Fetched /\ response.status = 401) => Raised("WrongApiKey")

----
\* C3: whenever the response status is 302 or 404, fetch fails with
\* RouteNotFound carrying the URL the GET went to and that status, without
\* reading the body, whatever json_response.
C3_RouteNotFound ==
    (Fetched /\ response.status \in {302, 404})
    => /\ Len(sent) = 1
       /\ result.out = Raise("RouteNotFound",
                             << PyStr(sent[1].url \o " was not found."),
                                PyInt(response.status) >>)
       /\ \A i \in 1..Len(log) : log[i] # "text"

C3_Witness ==
    /\ Fetched /\ response.status = 302 /\ ~json_response
    /\ Raised("RouteNotFound") /\ result.out.args[2] = PyInt(302)
    /\ api_key = "abc" /\ parameters = << <<"a", PyInt(1)>> >>
    /\ result.out.args[1] = PyStr("https://osu.ppy.sh/api/get_user?k=abc&a=1 was not found.")

----
\* C4: a 200 response read with json_response = true whose body is a mapping
\* with an `error` key makes fetch fail: with ReplayUnavailable carrying the
\* message when the error is exactly "Replay not available.", with
\* HTTPError(400, error) for every other error value; the body is neither
\* returned nor stored.
C4_Expected(body) ==
    LET error == body.items[CHOOSE i \in 1..Len(body.items) : body.items[i][1] = "error"][2]
    IN  IF error = PyStr("Replay not available.")
        THEN Raise("ReplayUnavailable", <<error>>)
        ELSE Raise("HTTPError", <<PyInt(400), error>>)

C4_Step ==
    (/\ pc = "awaiting_text" /\ response.status = 200 /\ json_response
     /\ BodyParses(response.text) /\ ReportsError(ParsedBody(response.text))
     /\ pc' = "idle")
    => /\ result'.out = C4_Expected(ParsedBody(response.text))
       /\ _data' = _data
       /\ (response.text = "{\"error\": \"Replay not available.\"}"
             => result'.out = Raise("ReplayUnavailable", <<PyStr("Replay not available.")>>))
       /\ (response.text = "{\"error\": \"bad key\"}"
             => result'.out = Raise("HTTPError", <<PyInt(400), PyStr("bad key")>>))

C4_RemoteError == [][C4_Step]_vars

C4_Witness ==
    /\ Fetched /\ response.status = 200 /\ json_response
    /\ response.text = "{\"error\": \"Replay not available.\"}"
    /\ Raised("ReplayUnavailable")
    /\ _data = PyDict(<< <<"id", PyInt(1)>> >>)

----
\* C5: for every status other than 200, 401, 302 and 404, fetch fails with
\* HTTPError carrying that status, and with no other kind of error.
C5_AlwaysHTTPError ==
    (Fetched /\ response.status \in Statuses \ {200, 401, 302, 404})
    => Raised("HTTPError") /\ result.out.args[1] = PyInt(response.status)

----
\* C6: validation precedes dispatch.  A call of fetch whose route holds a
\* key outside the allow-list fails with InvalidArgument and issues no GET;
\* a GET is issued only after check_params returned in the same call.
C6_HasBadKey == \E i \in 1..Len(parameters) : parameters[i][1] \notin AllowList

C6_ValidationPrecedesDispatch ==
    /\ \A i \in 1..Len(log) :
          log[i] = "get" => \E j \in 1..(i - 1) : log[j] = "check_params"
    /\ Len(sent) > 0 => \E i \in 1..Len(log) : log[i] = "get"
    /\ (result.op = "fetch" /\ pc # "check_params" /\ C6_HasBadKey)
       => /\ pc = "idle" /\ Raised("InvalidArgument")
          /\ sent = <<>>
          /\ \A i \in 1..Len(log) : log[i] # "get"

C6_Witness ==
    /\ Fetched /\ Raised("InvalidArgument") /\ sent = <<>>
    /\ session.use = "caller"
    /\ parameters = << <<"a", PyInt(1)>>, <<"zz", PyInt(1)>> >>

----
\* C7: check_params on a mapping holding a key outside the allow-list fails
\* with InvalidArgument carrying the first such key in insertion order.
C7_FirstBad ==
    parameters[CHOOSE i \in 1..Len(parameters) :
                  /\ parameters[i][1] \notin AllowList
                  /\ \A j \in 1..(i - 1) : parameters[j][1] \in AllowList][1]

C7_InvalidArgument ==
    (result.op = "check_params" /\ C6_HasBadKey)
    => result.out = Raise("InvalidArgument", <<PyStr(C7_FirstBad)>>)

C7_Witness ==
    /\ result.op = "check_params"
    /\ Len(parameters) = 2 /\ parameters[1][1] = "q" /\ parameters[2][1] = "zz"
    /\ result.out = Raise("InvalidArgument", <<PyStr("q")>>)

----
\* C8: check_params on a mapping whose keys are all in the allow-list (the
\* empty mapping too) does not fail, and it leaves the mapping as it was.
C8_Passes ==
    (result.op = "check_params" /\ ~C6_HasBadKey) => result.out = Return(None)

C8_Unchanged == result'.op = "check_params" => parameters' = parameters

C8_AcceptedPass == []C8_Passes /\ [][C8_Unchanged]_vars

C8_Witness ==
    /\ result.op = "check_params" /\ result.out = Return(None)
    /\ parameters = << <<"since", PyInt(0)>>, <<"k", PyStr("")>> >>

----
\* C9: `route` is base + path followed by the query string of the current
\* state: `k=<api_key>` first when the api key is not empty, then each
\* parameter as name=value in insertion order, joined by `&` after a `?`;
\* with neither, base + path alone.  An updated key keeps its position.
C9_Text(v) ==
    CASE v = PyInt(0) -> "0" [] v = PyInt(1) -> "1" [] v = PyInt(2) -> "2"
      [] v = PyStr("") -> ""

C9_Pair(i) == parameters[i][1] \o "=" \o C9_Text(parameters[i][2])

RECURSIVE C9_Rest(_)
C9_Rest(i) ==
    IF i > Len(parameters) THEN "" ELSE "&" \o C9_Pair(i) \o C9_Rest(i + 1)

C9_Url ==
    IF api_key # "" THEN base \o path \o "?k=" \o api_key \o C9_Rest(1)
    ELSE IF Len(parameters) = 0 THEN base \o path
    ELSE base \o path \o "?" \o C9_Pair(1) \o C9_Rest(2)

C9_Names(params) == [i \in 1..Len(params) |-> params[i][1]]

C9_Assembled ==
    /\ route = C9_Url
    /\ result.op = "route" => result.out = Return(PyStr(C9_Url))
    /\ (api_key = "abc" /\ parameters = << <<"a", PyInt(1)>>, <<"h", PyInt(2)>> >>)
       => route = "https://osu.ppy.sh/api/get_user?k=abc&a=1&h=2"
    /\ (api_key = "" /\ parameters = <<>>) => route = "https://osu.ppy.sh/api/get_user"

C9_UpdateInPlace ==
    (/\ result'.op = "add_param"
     /\ \E i \in 1..Len(parameters) : PyStr(parameters[i][1]) = result'.args[1])
    => C9_Names(parameters') = C9_Names(parameters)

C9_RouteUrl == []C9_Assembled /\ [][C9_UpdateInPlace]_vars

C9_Witness ==
    /\ api_key = "abc" /\ parameters = << <<"a", PyInt(1)>>, <<"h", PyInt(2)>> >>
    /\ result = Call("route", <<>>, Return(PyStr("https://osu.ppy.sh/api/get_user?k=abc&a=1&h=2")))

----
\* C10: add_param(key, None) never changes the parameter mapping: it adds no
\* key, removes none and alters no value, and `route` is the same after it
\* (the api key and the query items it is assembled from are the same).
C10_Step ==
    (result'.op = "add_param" /\ result'.args[2] = None)
    => /\ parameters' = parameters
       /\ api_key' = api_key
       /\ query(api_key', parameters') = query(api_key, parameters)

C10_NoneIsNoOp == [][C10_Step]_vars

C10_Witness ==
    /\ result = Call("add_param", <<PyStr("a"), None>>, Return(None))
    /\ parameters = << <<"a", PyInt(0)>> >>

----
\* C11: remove_param on an absent key returns false and changes nothing; on
\* a present key, whatever its value, it returns true and removes that key
\* alone.  As claimed, the key then no longer appears in `route`; as
\* amended, it no longer appears among the items `route` builds from the
\* parameters (the leading k=<api_key> item stays when the key is `k`).
C11_Key == result'.args[1].s

C11_Present == \E i \in 1..Len(parameters) : parameters[i][1] = C11_Key

C11_Others(params) ==
    SelectSeq(params, LAMBDA kv : kv[1] # C11_Key)

C11_Removes ==
    IF C11_Present
    THEN /\ result'.out = Return(PyBool(TRUE))
         /\ parameters' = C11_Others(parameters)
         /\ Len(parameters') = Len(parameters) - 1
    ELSE /\ result'.out = Return(PyBool(FALSE))
         /\ parameters' = parameters

\* the positions of the key among the query items of `route` after the call
C11_Positions == { i \in 1..Len(query(api_key', parameters')) :
                     query(api_key', parameters')[i][1] = C11_Key }

C11_StepClaimed ==
    result'.op = "remove_param"
    => /\ C11_Removes
       /\ C11_Present => C11_Positions = {}

C11_StepAmended ==
    result'.op = "remove_param"
    => /\ C11_Removes
       /\ C11_Present
            => C11_Positions \subseteq (IF C11_Key = "k" /\ api_key' # "" THEN {1} ELSE {})

C11_RemoveParamClaimed == [][C11_StepClaimed]_vars

C11_RemoveParam == [][C11_StepAmended]_vars

\* C11 witness: the parameter `k` was removed while an api key is set
C11_Witness ==
    /\ result = Call("remove_param", <<PyStr("k")>>, Return(PyBool(TRUE)))
    /\ api_key = "abc"
    /\ parameters = << <<"a", PyStr("")>> >>
    /\ route = "https://osu.ppy.sh/api/get_user?k=abc&a="

----
\* C12: with json_response = true, get_json with one or more path keys
\* descends the parsed body key by key and returns the value found; when a
\* key is missing at any level (a mapping without the key, a value that is
\* no mapping, an empty body) it returns the empty string, and never raises.
RECURSIVE C12_Find(_, _)
C12_Find(data, keys) ==
    IF Len(keys) = 0 THEN data
    ELSE IF data.t = "dict" /\ \E i \in 1..Len(data.items) : data.items[i][1] = Head(keys)
         THEN C12_Find(data.items[CHOOSE i \in 1..Len(data.items) :
                                     data.items[i][1] = Head(keys)][2], Tail(keys))
         ELSE PyStr("")

C12_PathLookup ==
    (/\ result.op = "get_json" /\ json_response
     /\ Len(result.args[2]) >= 1
     /\ BodyParses(result.args[1].s))
    => result.out =
         Return(IF result.args[1].s = "" THEN PyStr("")
                ELSE C12_Find(loads(result.args[1].s).value, result.args[2]))

----
\* C13: with json_response = false, get_json returns the raw text, unparsed,
\* for every body and every path, in the error branches too; so a 200
\* response always succeeds with the raw text as data, even when the text
\* is a JSON object with an `error` key.
C13_RawText ==
    /\ (result.op = "get_json" /\ ~json_response)
       => result.out = Return(result.args[1])
    /\ (Fetched /\ ~json_response /\ response.status = 200)
       => /\ result.out = Return(PyStr(response.text))
          /\ _data = PyStr(response.text)
    /\ (Fetched /\ ~json_response /\ response.status = 401)
       => result.out = Raise("WrongApiKey", <<PyStr(response.text)>>)
    /\ (Fetched /\ ~json_response /\ response.status = 500)
       => result.out = Raise("HTTPError", <<PyInt(500), PyStr(response.text)>>)

C13_Witness ==
    /\ Fetched /\ ~json_response
    /\ response = [status |-> 200, text |-> "{\"error\": \"bad key\"}"]
    /\ result.out = Return(PyStr("{\"error\": \"bad key\"}"))
    /\ _data = PyStr("{\"error\": \"bad key\"}")

----
\* C14: fetch releases a session exactly when it made it.  With no session
\* given, the session is made before validation and dispatch, carries the
\* GET, and is closed when fetch completes, on every path; a session given
\* by the caller carries the GET and is left open on every path.
C14_SessionScope ==
    /\ session.caller = "open"
    /\ \A i \in 1..Len(sent) : sent[i].on = session.use
    /\ session.use = "own"
       => /\ Len(log) >= 1 /\ log[1] = "ClientSession"
          /\ \A i \in 2..Len(log) : log[i] # "ClientSession"
          /\ session.own = (IF pc = "idle" THEN "closed" ELSE "open")
          /\ pc = "idle" => log[Len(log)] = "close"
          /\ pc # "idle" => \A i \in 1..Len(log) : log[i] # "close"
    /\ session.use = "caller"
       => /\ session.own = "none"
          /\ \A i \in 1..Len(log) : log[i] \notin {"ClientSession", "close"}

\* C14 witness: a session made by fetch is closed after a body failed to parse
C14_Witness ==
    /\ Fetched /\ session.use = "own" /\ session.own = "closed"
    /\ Raised("JSONDecodeError")
    /\ log = <<"ClientSession", "check_params", "get", "text", "close">>

----
\* C15: there is no retry.  Whatever retry_count is, a call of fetch issues
\* one GET when validation passes and none when it fails, a response that
\* is no success ends the call with an exception, and retry_count keeps the
\* value it was built with.
C15_OneGet ==
    /\ Len(sent) <= 1
    /\ Cardinality({i \in 1..Len(log) : log[i] = "get"}) = Len(sent)
    /\ Fetched
       => /\ Len(sent) = (IF Raised("InvalidArgument") THEN 0 ELSE 1)
          /\ (Len(sent) = 1 /\ response.status # 200) => result.out.kind = "raise"

----
\* C16: `data` holds the last payload fetched with success: the empty list
\* at first, unchanged by a fetch that fails in any way, and the value
\* returned after a fetch that succeeds.
C16_Step ==
    /\ (pc # "idle" /\ pc' = "idle" /\ result'.out.kind = "raise") => _data' = _data
    /\ (pc # "idle" /\ pc' = "idle" /\ result'.out.kind = "return")
       => _data' = result'.out.value
    /\ ~(pc # "idle" /\ pc' = "idle") => _data' = _data

C16_LastPayload == (_data = PyList(<<>>)) /\ [][C16_Step]_vars

\* C16 witness: a payload fetched earlier is still there after a 200 whose
\* body reported an error
C16_Witness ==
    /\ Fetched /\ response.status = 200 /\ Raised("HTTPError")
    /\ result.out.args[1] = PyInt(400)
    /\ _data = IdList

----
\* C17: validation is lazy.  Route(...) and add_param store a key outside
\* the allow-list without failing; remove_param takes it out again without
\* failing; InvalidArgument comes from check_params alone, and check_params
\* passes whenever no such key is stored at that moment, whatever was
\* stored before.
C17_Stored(key, value) ==
    \E i \in 1..Len(parameters) : parameters[i] = <<key, value>>

C17_Lazy ==
    /\ result.op = "Route"
       => /\ result.out = Return(None)
          /\ \A i \in 1..Len(result.args[1]) :
                result.args[1][i][2] # None
                => C17_Stored(result.args[1][i][1], result.args[1][i][2])
    /\ result.op = "add_param"
       => /\ result.out = Return(None)
          /\ result.args[2] # None => C17_Stored(result.args[1].s, result.args[2])
    /\ result.op = "remove_param" => result.out.kind = "return"
    /\ result.out.kind = "raise"
       => result.op = "check_params" /\ result.out.exc = "InvalidArgument"
    /\ (result.op = "check_params" /\ ~C6_HasBadKey) => result.out.kind = "return"

\* C17 witness: a key outside the allow-list was stored and is removed again
C17_Witness ==
    /\ result = Call("remove_param", <<PyStr("zz")>>, Return(PyBool(TRUE)))
    /\ parameters = << <<"a", PyInt(1)>> >>

----
\* C18: once a response has been received, a fetch ends in one of five
\* outcomes and in no other: success, WrongApiKey (401), RouteNotFound
\* (302, 404), HTTPError with the status (any other status but 200), or, on
\* a 200, ReplayUnavailable or HTTPError 400; this for every status and
\* every body.
C18_FiveOutcomes ==
    (Fetched /\ response.status \in Statuses)
    => LET out == result.out
       IN  CASE response.status = 401 -> Raised("WrongApiKey")
             [] response.status \in {302, 404} -> Raised("RouteNotFound")
             [] response.status = 200 ->
                  \/ out.kind = "return"
                  \/ Raised("ReplayUnavailable")
                  \/ Raised("HTTPError") /\ out.args[1] = PyInt(400)
             [] OTHER -> Raised("HTTPError") /\ out.args[1] = PyInt(response.status)

----
\* C19: every GET goes to a URL whose parameter names (the leading api-key
\* `k` aside) are all in the allow-list, even while another coroutine adds
\* and removes parameters: the URL is the route of the parameters that
\* check_params has just passed, with no suspension in between.
C19_Step ==
    Len(sent') > Len(sent)
    => /\ \A i \in 1..Len(parameters) : parameters[i][1] \in AllowList
       /\ sent'[Len(sent')].url = routeOf(api_key, parameters)

C19_ValidatedUrl == [][C19_Step]_vars

\* C19 witness: the Route took a key outside the allow-list while the GET
\* of a validated URL was in flight
C19_Witness ==
    /\ pc = "awaiting_response" /\ C6_HasBadKey
    /\ api_key = "abc"
    /\ sent = << [url |-> "https://osu.ppy.sh/api/get_user?k=abc&a=1", on |-> "own"] >>

----
\* C20: the URL RouteNotFound carries is the URL the GET went to, even when
\* the Route is changed while the request is in flight.
C20_CarriesSentUrl ==
    (Fetched /\ Raised("RouteNotFound"))
    => result.out.args[1] = PyStr(sent[1].url \o " was not found.")

====
